---- MODULE Spec2Model ----
(***************************************************************************)
(* Model of scripts/energy_analysis.py (class EnergyTimeAnalysis and       *)
(* main): loading CSV files into one dataset, the grouped statistics of    *)
(* analyze, the EDP ranking, the optimal-frequency selection and the       *)
(* order in which run_analysis writes its output files.                    *)
(*                                                                         *)
(* Numbers: measurement values are exact integers; a float computed from   *)
(* them is the rational num/den (den > 0), or one of the special values    *)
(* None (Python None) and NaN (float nan).  A standard deviation is kept   *)
(* as its square.  An algorithm name is an integer whose order is the      *)
(* lexical order of the names (1 = "bubble_sort" < 2 = "merge_sort").      *)
(* A Python dict is a record [keys, val]: the keys in insertion order and  *)
(* the mapping.                                                            *)
(***************************************************************************)
EXTENDS Integers, Sequences, FiniteSets, TLC

VARIABLES
    pc,                  \* position of main / run_analysis
    data,                \* self.data: the loaded rows, in order
    analyze_calls,       \* how many times analyze has returned
    results,             \* what the last analyze call returned
    prev_results,        \* what the analyze call before it returned
    rng,                 \* state of the generator last used by a bootstrap
    edp_ranking,         \* what analyze_energy_efficiency_edp returned
    edp_report,          \* the per-algorithm best/worst lines it printed
    optimal_frequencies, \* what analyze_optimal_frequency returned
    files,               \* output files written so far, in order
    error,               \* the exception that ended the run, or "none"
    csv_source,          \* args.csv_source: what main was started on
    printed,             \* the record count and diagnostics printed so far
    text_report,         \* what the text report holds, once written
    csv                  \* the rows of the consolidated CSV, once written

vars == <<pc, data, analyze_calls, results, prev_results, rng, edp_ranking,
          edp_report, optimal_frequencies, files, error, csv_source,
          printed, text_report, csv>>

----------------------------------------------------------------------------
(* Bounds of the model *)

\* Most rows a loaded dataset holds (all files together).
MaxRows == 3

\* Most rows of a dataset whose rows all carry the same measurement.
MaxShapeRows == 4

\* Most calls of analyze on one analyzer object.
MaxAnalyzeCalls == 2

\* Most rows of one file of a dataset built from files of both formats.
MaxFormatRows == 2

\* Resamples one bootstrap draws (n_resamples = 10000 in the code).
NResamples == 8

----------------------------------------------------------------------------
(* Floats *)

Num(n, d) == [k |-> "num", num |-> n, den |-> d]
None == [k |-> "None", num |-> 0, den |-> 1]
NaN  == [k |-> "nan", num |-> 0, den |-> 1]
PosInf == [k |-> "inf", num |-> 0, den |-> 1]
NegInf == [k |-> "-inf", num |-> 0, den |-> 1]

IsNum(x) == x.k = "num"

\* Comparisons of floats: every comparison with nan is false.
FEq(a, b)  == IsNum(a) /\ IsNum(b) /\ a.num * b.den = b.num * a.den
FLt(a, b)  == IsNum(a) /\ IsNum(b) /\ a.num * b.den < b.num * a.den
FLeq(a, b) == IsNum(a) /\ IsNum(b) /\ a.num * b.den <= b.num * a.den

FSub(a, b) == Num(a.num * b.den - b.num * a.den, a.den * b.den)

\* a / b in IEEE arithmetic (numpy scalars): 0/0 is nan, x/0 is +-inf.
FDiv(a, b) ==
    IF b.num = 0
    THEN (IF a.num = 0 THEN NaN ELSE IF a.num > 0 THEN PosInf ELSE NegInf)
    ELSE IF b.num > 0 THEN Num(a.num * b.den, a.den * b.num)
    ELSE Num(-(a.num * b.den), -(a.den * b.num))

FTimes100(a) == IF IsNum(a) THEN Num(a.num * 100, a.den) ELSE a

RECURSIVE SumSeq(_)
SumSeq(s) == IF s = <<>> THEN 0 ELSE Head(s) + SumSeq(Tail(s))

\* np.mean of a non-empty vector of integers.
np_mean(v) == Num(SumSeq(v), Len(v))

----------------------------------------------------------------------------
(* Python lists and dicts *)

RECURSIVE InsertInt(_, _)
InsertInt(s, x) ==
    IF s = <<>> THEN <<x>>
    ELSE IF x < Head(s) THEN <<x>> \o s
    ELSE <<Head(s)>> \o InsertInt(Tail(s), x)

\* sorted(list of integers): stable, ascending.
RECURSIVE SortedInts(_)
SortedInts(s) ==
    IF s = <<>> THEN <<>>
    ELSE InsertInt(SortedInts(SubSeq(s, 1, Len(s) - 1)), s[Len(s)])

Range(s) == {s[i] : i \in DOMAIN s}

\* Series.unique(): the distinct values in order of first appearance.
RECURSIVE Unique(_)
Unique(s) ==
    IF s = <<>> THEN <<>>
    ELSE LET u == Unique(SubSeq(s, 1, Len(s) - 1))
             x == s[Len(s)]
         IN IF x \in Range(u) THEN u ELSE Append(u, x)

EmptyDict == [keys |-> <<>>, val |-> <<>>]

\* d[k] = v on a dict: a new key goes last, an old key keeps its place.
DictPut(d, k, v) ==
    [keys |-> IF k \in Range(d.keys) THEN d.keys ELSE Append(d.keys, k),
     val  |-> [x \in Range(d.keys) \cup {k} |-> IF x = k THEN v ELSE d.val[x]]]

DictKeys(d) == d.keys
DictHas(d, k) == k \in Range(d.keys)

----------------------------------------------------------------------------
(* File names *)

\* The sentinel 'Não identificado' stored in cpu_frequency_mhz; no parsed
\* frequency is negative.
NaoIdentificado == -1

Digits == <<"0", "1", "2", "3", "4", "5", "6", "7", "8", "9">>
IsDigit(c) == c \in Range(Digits)
DigitVal(c) == (CHOOSE i \in DOMAIN Digits : Digits[i] = c) - 1

\* str.lower() on the characters file names are made of.
LowerChar(c) ==
    CASE c = "M" -> "m"
      [] c = "H" -> "h"
      [] c = "Z" -> "z"
      [] c = "R" -> "r"
      [] OTHER -> c
Lower(name) == [i \in DOMAIN name |-> LowerChar(name[i])]

\* int() of a string of digits.
RECURSIVE IntOf(_)
IntOf(ds) ==
    IF ds = <<>> THEN 0
    ELSE 10 * IntOf(SubSeq(ds, 1, Len(ds) - 1)) + DigitVal(ds[Len(ds)])

\* End of the run of digits that starts at i.
RECURSIVE DigitRunEnd(_, _)
DigitRunEnd(s, i) ==
    IF i <= Len(s) /\ IsDigit(s[i]) THEN DigitRunEnd(s, i + 1) ELSE i - 1

\* re.search(r'(\d+)mhz', s): the leftmost position where one or more
\* digits are followed by "mhz"; 0 when there is none.
MatchAt(s, i) ==
    /\ IsDigit(s[i])
    /\ LET e == DigitRunEnd(s, i)
       IN /\ e + 3 <= Len(s)
          /\ SubSeq(s, e + 1, e + 3) = <<"m", "h", "z">>

extract_frequency_from_filename(filename) ==
    LET s == Lower(filename)
        hits == {i \in DOMAIN s : MatchAt(s, i)}
    IN IF hits = {} THEN None
       ELSE LET i == CHOOSE j \in hits : \A h \in hits : j <= h
            IN Num(IntOf(SubSeq(s, i, DigitRunEnd(s, i))), 1)

\* The characters file names are made of, in code-point order.
Alphabet == <<"-", ".", "0", "1", "2", "3", "4", "5", "6", "7", "8", "9",
              "H", "M", "R", "Z", "_", "c", "h", "m", "n", "r", "s", "u",
              "v", "z">>
Code(c) == CHOOSE i \in DOMAIN Alphabet : Alphabet[i] = c

\* a < b for two strings, as Python compares them.
RECURSIVE StrLess(_, _)
StrLess(a, b) ==
    IF b = <<>> THEN FALSE
    ELSE IF a = <<>> THEN TRUE
    ELSE IF Head(a) # Head(b) THEN Code(Head(a)) < Code(Head(b))
    ELSE StrLess(Tail(a), Tail(b))

\* sorted(files): the files of a set, by ascending name.
RECURSIVE SortedFiles(_)
SortedFiles(fs) ==
    IF fs = {} THEN <<>>
    ELSE LET f == CHOOSE x \in fs : \A y \in fs \ {x} : StrLess(x.name, y.name)
         IN <<f>> \o SortedFiles(fs \ {f})

----------------------------------------------------------------------------
(* load_data *)

\* A CSV file is [name, columns, rows]; a row of it is
\* [algo, joules, time_ms, freq_mhz] (freq_mhz is read only when the file
\* has that column).

\* A frame tagged from the file name whenever the name holds a frequency.
TagFileNameFirst(f) ==
    LET frequency == extract_frequency_from_filename(f.name)
    IN [i \in DOMAIN f.rows |->
          [algo |-> f.rows[i].algo,
           joules |-> f.rows[i].joules,
           time_ms |-> f.rows[i].time_ms,
           source_file |-> f.name,
           cpu_frequency_mhz |->
               IF frequency # None THEN frequency.num
               ELSE IF "freq_mhz" \in f.columns THEN f.rows[i].freq_mhz
               ELSE NaoIdentificado]]

\* One file's frame after lines 52-71 / 86-105: source_file and
\* cpu_frequency_mhz added to every row.
TagFile(f) ==
    LET frequency == extract_frequency_from_filename(f.name)
    IN [i \in DOMAIN f.rows |->
          [algo |-> f.rows[i].algo,
           joules |-> f.rows[i].joules,
           time_ms |-> f.rows[i].time_ms,
           source_file |-> f.name,
           cpu_frequency_mhz |->
               IF "freq_mhz" \in f.columns THEN f.rows[i].freq_mhz
               ELSE IF frequency # None THEN frequency.num
               ELSE NaoIdentificado]]

\* pd.concat(dataframes, ignore_index=True)
RECURSIVE Concat(_)
Concat(frames) ==
    IF frames = <<>> THEN <<>> ELSE Head(frames) \o Concat(Tail(frames))

RequiredWithoutTime == {"algo", "joules"}

required_columns == {"algo", "joules", "time_ms"}

\* A printed line: who printed it, which line it is and the number in it.
Msg(by, text, n) == [by |-> by, text |-> text, n |-> n]

\* print(f"Total de registros: {len(self.data)}")  (line 114)
TotalLine(d) == Msg("load_data", "Total de registros", Len(d))

\* load_data on a source [kind, files]: kind "file" is a single file path,
\* "dir" a directory and "glob" a pattern, with the files each one holds or
\* matches.  The result is [ok, data, printed]; ok = FALSE is the
\* ValueError every exception is turned into: no file found (line 81), a
\* KeyError of self.data['algo'] (line 115) or a missing column (line 129),
\* the last two after the record count was printed.
load_data(src) ==
    LET fs == SortedFiles(src.files)
        frames == [i \in DOMAIN fs |-> TagFile(fs[i])]
        columns == UNION {f.columns : f \in src.files}
    IN IF src.kind # "file" /\ src.files = {}
       THEN [ok |-> FALSE, data |-> <<>>, printed |-> <<>>]
       ELSE IF ~(required_columns \subseteq columns)
       THEN [ok |-> FALSE, data |-> <<>>,
             printed |-> <<TotalLine(Concat(frames))>>]
       ELSE [ok |-> TRUE, data |-> Concat(frames),
             printed |-> <<TotalLine(Concat(frames))>>]

----------------------------------------------------------------------------
(* Statistics *)

Sqrt(q) == [k |-> "sqrt", num |-> q.num, den |-> q.den]

SumSq(v) == SumSeq([i \in DOMAIN v |-> v[i] * v[i]])
SumProd(v, w) == SumSeq([i \in DOMAIN v |-> v[i] * w[i]])

np_std_population(v, ddof) ==
    LET n == Len(v)
    IN Sqrt(Num(n * SumSq(v) - SumSeq(v) * SumSeq(v), n * n))

\* np.std(v, ddof=ddof): the square root of
\* sum((x - mean)^2) / (n - ddof) = (n*sum(x^2) - sum(x)^2) / (n*(n - ddof)).
np_std(v, ddof) ==
    LET n == Len(v)
    IN Sqrt(Num(n * SumSq(v) - SumSeq(v) * SumSeq(v), n * (n - ddof)))

\* scipy.stats.pearsonr(x, y): [value, p_value].  With sxy, sxx, syy the
\* centred sums times n, r = sxy / sqrt(sxx * syy) is kept as its signed
\* square; a constant vector gives nan for both.  The p-value is 1 for two
\* points and otherwise a function of r and n, kept as the pair it is
\* computed from.
pearsonr(x, y) ==
    LET n == Len(x)
        sxy == n * SumProd(x, y) - SumSeq(x) * SumSeq(y)
        sxx == n * SumSq(x) - SumSeq(x) * SumSeq(x)
        syy == n * SumSq(y) - SumSeq(y) * SumSeq(y)
        sgn == IF sxy < 0 THEN -1 ELSE 1
    IN IF sxx = 0 \/ syy = 0
       THEN [value |-> NaN, p_value |-> NaN]
       ELSE [value |-> [k |-> "signed_sqrt", num |-> sgn * sxy * sxy,
                        den |-> sxx * syy],
             p_value |-> IF n = 2 THEN Num(1, 1)
                         ELSE [k |-> "p_of_r2_n", num |-> sxy * sxy,
                               den |-> sxx * syy]]

----------------------------------------------------------------------------
(* Bootstrap *)

\* The seed of line 208.
BootstrapSeed == 42

\* np.random.default_rng(seed): a generator whose state is set by the seed.
default_rng(seed) == seed

\* One step of the generator (a linear congruential generator stands for
\* PCG64) and the index in 0..n-1 drawn from a state.
NextState(s) == (75 * s + 74) % 65537
IndexOf(s, n) == (s \div 7) % n

\* The states after 1, 2, ..., k steps from s.
RECURSIVE States(_, _)
States(s, k) ==
    IF k = 0 THEN <<>> ELSE <<NextState(s)>> \o States(NextState(s), k - 1)

MinF(S) == CHOOSE x \in S : \A y \in S : FLeq(x, y)
MaxF(S) == CHOOSE x \in S : \A y \in S : FLeq(y, x)

IsConstant(v) == \A i, j \in DOMAIN v : v[i] = v[j]

\* bootstrap((v,), np.mean, n_resamples, confidence_level=0.95,
\* random_state=g): NResamples resamples of size n drawn with replacement
\* from g, the mean of each, and the interval between the lowest and the
\* highest of them (the 2.5th and 97.5th percentiles of fewer than 40
\* values; NResamples is large enough for the means to fall on both sides
\* of the sample mean, as they do with 10000 resamples).  The BCa correction moves the two percentiles and is left out,
\* except for its result on a constant vector: the acceleration is 0/0 and
\* both bounds are nan (DegenerateDataWarning).
\* The result is [low, high, rng]: the interval and the generator's state
\* afterwards.
bootstrap(v, g) ==
    LET n == Len(v)
        st == States(g, NResamples * n)
        theta_hat_b ==
            {Num(SumSeq([j \in 1..n |->
                            v[IndexOf(st[(b - 1) * n + j], n) + 1]]), n)
                : b \in 1..NResamples}
    IN IF IsConstant(v)
       THEN [low |-> NaN, high |-> NaN, rng |-> st[Len(st)]]
       ELSE [low |-> MinF(theta_hat_b), high |-> MaxF(theta_hat_b),
             rng |-> st[Len(st)]]

----------------------------------------------------------------------------
(* analyze *)

Column(rows, c) == [i \in DOMAIN rows |-> rows[i][c]]

IsAnyFrequency(f) == TRUE

\* The test of lines 121 and 146.
IsKnownFrequency(f) == f # NaoIdentificado

InSubsetAnyAlgo(r, algo, freq) == r.cpu_frequency_mhz = freq

\* The row mask of line 149.
InSubset(r, algo, freq) == r.algo = algo /\ r.cpu_frequency_mhz = freq

SubsetAtMostFreq(d, algo, freq) ==
    SelectSeq(d, LAMBDA r : r.algo = algo /\ IsKnownFrequency(r.cpu_frequency_mhz)
                            /\ r.cpu_frequency_mhz <= freq)

Subset(d, algo, freq) == SelectSeq(d, LAMBDA r : InSubset(r, algo, freq))

\* edp_data = energy_data * time_data; edp_mean = np.mean(edp_data)
edp_data_of(energy_data, time_data) ==
    [i \in DOMAIN energy_data |-> energy_data[i] * time_data[i]]

edp_mean_product_of_means(energy_data, time_data) ==
    Num(SumSeq(energy_data) * SumSeq(time_data),
        Len(energy_data) * Len(energy_data))

\* edp_mean = np.mean(edp_data)  (lines 168-169)
edp_mean_of(energy_data, time_data) ==
    np_mean(edp_data_of(energy_data, time_data))

group_rng_carried(carried) == carried

\* The generator a group's three bootstraps draw from; carried is the state
\* the last bootstrap before it left behind.
group_rng(carried) == default_rng(BootstrapSeed)

Absent(mean) ==
    [mean |-> mean, std |-> None, ci_lower |-> None, ci_upper |-> None]

\* The statistics of one non-empty group and the generator state after it:
\* [stats, rng].
GroupStats(subset, carried) ==
    LET energy_data == Column(subset, "joules")
        time_data == Column(subset, "time_ms")
        n_samples == Len(energy_data)
        energy_mean == np_mean(energy_data)
        time_mean == np_mean(time_data)
        edp_data == edp_data_of(energy_data, time_data)
        edp_mean == edp_mean_of(energy_data, time_data)
    IN IF n_samples = 1
       THEN [stats |-> [n_samples |-> n_samples,
                        energy |-> Absent(energy_mean),
                        time |-> Absent(time_mean),
                        edp |-> Absent(edp_mean),
                        correlation |-> [value |-> None, p_value |-> None]],
             rng |-> carried]
       ELSE LET g == group_rng(carried)
                energy_bootstrap == bootstrap(energy_data, g)
                time_bootstrap == bootstrap(time_data, energy_bootstrap.rng)
                edp_bootstrap == bootstrap(edp_data, time_bootstrap.rng)
            IN [stats |->
                    [n_samples |-> n_samples,
                     energy |-> [mean |-> energy_mean,
                                 std |-> np_std(energy_data, 1),
                                 ci_lower |-> energy_bootstrap.low,
                                 ci_upper |-> energy_bootstrap.high],
                     time |-> [mean |-> time_mean,
                               std |-> np_std(time_data, 1),
                               ci_lower |-> time_bootstrap.low,
                               ci_upper |-> time_bootstrap.high],
                     edp |-> [mean |-> edp_mean,
                              std |-> np_std(edp_data, 1),
                              ci_lower |-> edp_bootstrap.low,
                              ci_upper |-> edp_bootstrap.high],
                     correlation |-> pearsonr(energy_data, time_data)],
                rng |-> edp_bootstrap.rng]

\* The loop of lines 148-242 over frequencies[i..] for one algorithm:
\* [dict, rng], dict being results[algo].
RECURSIVE FreqLoop(_, _, _, _, _, _)
FreqLoop(d, algo, frequencies, i, dict, carried) ==
    IF i > Len(frequencies) THEN [dict |-> dict, rng |-> carried]
    ELSE LET freq == frequencies[i]
             subset == Subset(d, algo, freq)
         IN IF Len(subset) = 0
            THEN FreqLoop(d, algo, frequencies, i + 1, dict, carried)
            ELSE LET g == GroupStats(subset, carried)
                 IN FreqLoop(d, algo, frequencies, i + 1,
                             DictPut(dict, freq, g.stats), g.rng)

\* The loop of lines 143-242 over algos[i..]: [results, rng].
RECURSIVE AlgoLoop(_, _, _, _, _)
AlgoLoop(d, algos, i, res, carried) ==
    IF i > Len(algos) THEN [results |-> res, rng |-> carried]
    ELSE LET frequencies ==
                 SortedInts(SelectSeq(Unique(Column(d, "cpu_frequency_mhz")),
                                      IsKnownFrequency))
             inner == FreqLoop(d, algos[i], frequencies, 1, EmptyDict, carried)
         IN AlgoLoop(d, algos, i + 1, DictPut(res, algos[i], inner.dict),
                     inner.rng)

\* analyze(): [results, rng], the result map and the state of the generator
\* used last (carried when no bootstrap was drawn).
analyze(d, carried) ==
    AlgoLoop(d, SortedInts(Unique(Column(d, "algo"))), 1, EmptyDict, carried)

----------------------------------------------------------------------------
(* analyze_energy_efficiency_edp *)

\* Lines 407-416 for results[algo]: one entry per frequency, in the order
\* of the dict's keys.
AlgoEntries(res, algo) ==
    LET fd == res.val[algo]
    IN [i \in DOMAIN fd.keys |->
          [algorithm |-> algo,
           frequency |-> fd.keys[i],
           edp |-> fd.val[fd.keys[i]].edp.mean,
           energy |-> fd.val[fd.keys[i]].energy.mean,
           time |-> fd.val[fd.keys[i]].time.mean]]

RECURSIVE CollectEntries(_, _)
CollectEntries(res, i) ==
    IF i > Len(res.keys) THEN <<>>
    ELSE AlgoEntries(res, res.keys[i]) \o CollectEntries(res, i + 1)

RECURSIVE InsertByEdp(_, _)
InsertByEdp(s, x) ==
    IF s = <<>> THEN <<x>>
    ELSE IF FLt(x.edp, Head(s).edp) THEN <<x>> \o s
    ELSE <<Head(s)>> \o InsertByEdp(Tail(s), x)

RECURSIVE InsertionSortByEdp(_)
InsertionSortByEdp(l) ==
    IF l = <<>> THEN <<>>
    ELSE InsertByEdp(InsertionSortByEdp(SubSeq(l, 1, Len(l) - 1)), l[Len(l)])

RECURSIVE InsertBeforeTies(_, _)
InsertBeforeTies(s, x) ==
    IF s = <<>> THEN <<x>>
    ELSE IF FLeq(x.edp, Head(s).edp) THEN <<x>> \o s
    ELSE <<Head(s)>> \o InsertBeforeTies(Tail(s), x)

RECURSIVE SortTiesReversed(_)
SortTiesReversed(l) ==
    IF l = <<>> THEN <<>>
    ELSE InsertBeforeTies(SortTiesReversed(SubSeq(l, 1, Len(l) - 1)), l[Len(l)])

\* edp_ranking.sort(key=lambda x: x['edp']): ascending and stable.
sort_by_edp(l) == InsertionSortByEdp(l)

RECURSIVE ScanMinLastTie(_, _, _)
ScanMinLastTie(pairs, i, best) ==
    IF i > Len(pairs) THEN best
    ELSE ScanMinLastTie(pairs, i + 1,
                        IF FLeq(pairs[i][2], best[2]) THEN pairs[i] ELSE best)

\* min(pairs, key=lambda x: x[1]) and max(...) on a non-empty list of
\* (frequency, value) pairs: the first pair with the least (greatest) value.
RECURSIVE ScanMin(_, _, _)
ScanMin(pairs, i, best) ==
    IF i > Len(pairs) THEN best
    ELSE ScanMin(pairs, i + 1,
                 IF FLt(pairs[i][2], best[2]) THEN pairs[i] ELSE best)

RECURSIVE ScanMax(_, _, _)
ScanMax(pairs, i, best) ==
    IF i > Len(pairs) THEN best
    ELSE ScanMax(pairs, i + 1,
                 IF FLt(best[2], pairs[i][2]) THEN pairs[i] ELSE best)

py_min_first_pair(pairs) == pairs[1]

py_min(pairs) == ScanMin(pairs, 2, pairs[1])
py_max(pairs) == ScanMax(pairs, 2, pairs[1])

\* ((worst - best) / worst) * 100
Percent(worst, best) == FTimes100(FDiv(FSub(worst, best), worst))

\* Lines 436-449 for one algorithm with at least one frequency.
BestWorst(res, algo) ==
    LET frequencies == SortedInts(res.val[algo].keys)
        edps == [i \in DOMAIN frequencies |->
                    <<frequencies[i], res.val[algo].val[frequencies[i]].edp.mean>>]
        best == py_min(edps)
        worst == py_max(edps)
    IN [best_freq |-> best[1], best_edp |-> best[2],
        worst_freq |-> worst[1], worst_edp |-> worst[2],
        improvement |-> Percent(worst[2], best[2])]

\* The loop of lines 435-450 over algos[i..]: [ok, report]; min() of an
\* empty list raises ValueError and ends the loop.
RECURSIVE BestWorstLoop(_, _, _, _)
BestWorstLoop(res, algos, i, report) ==
    IF i > Len(algos) THEN [ok |-> TRUE, report |-> report]
    ELSE IF res.val[algos[i]].keys = <<>>
    THEN [ok |-> FALSE, report |-> report]
    ELSE BestWorstLoop(res, algos, i + 1,
                       DictPut(report, algos[i], BestWorst(res, algos[i])))

\* analyze_energy_efficiency_edp(results): [ok, ranking, report], ok = FALSE
\* being the ValueError; report holds what was printed per algorithm.
analyze_energy_efficiency_edp(res) ==
    LET ranking == sort_by_edp(CollectEntries(res, 1))
        loop == BestWorstLoop(res, SortedInts(res.keys), 1, EmptyDict)
    IN [ok |-> loop.ok, ranking |-> ranking, report |-> loop.report]

----------------------------------------------------------------------------
(* analyze_optimal_frequency *)

\* min(energies) on a non-empty list of floats: the first least value.
RECURSIVE ScanMinValue(_, _, _)
ScanMinValue(l, i, best) ==
    IF i > Len(l) THEN best
    ELSE ScanMinValue(l, i + 1, IF FLt(l[i], best) THEN l[i] ELSE best)

list_index_last(l, x) ==
    CHOOSE i \in DOMAIN l :
        FEq(l[i], x) /\ \A j \in (i + 1)..Len(l) : ~FEq(l[j], x)

\* list.index(x): the first position holding a value equal to x.
list_index(l, x) == CHOOSE i \in DOMAIN l :
                        FEq(l[i], x) /\ \A j \in 1..(i - 1) : ~FEq(l[j], x)

\* Lines 464-483 for one algorithm with at least one frequency.
Optimal(res, algo) ==
    LET frequencies == SortedInts(res.val[algo].keys)
        energies == [i \in DOMAIN frequencies |->
                        res.val[algo].val[frequencies[i]].energy.mean]
        min_energy_idx == list_index(energies, ScanMinValue(energies, 2, energies[1]))
        min_energy == energies[min_energy_idx]
        max_freq == frequencies[Len(frequencies)]
        max_freq_energy == res.val[algo].val[max_freq].energy.mean
    IN [optimal_freq |-> frequencies[min_energy_idx],
        min_energy |-> min_energy,
        max_freq |-> max_freq,
        max_freq_energy |-> max_freq_energy,
        energy_savings |-> Percent(max_freq_energy, min_energy)]

RECURSIVE OptimalLoop(_, _, _, _)
OptimalLoop(res, algos, i, out) ==
    IF i > Len(algos) THEN [ok |-> TRUE, optimal_frequencies |-> out]
    ELSE IF res.val[algos[i]].keys = <<>>
    THEN [ok |-> FALSE, optimal_frequencies |-> out]
    ELSE OptimalLoop(res, algos, i + 1,
                     DictPut(out, algos[i], Optimal(res, algos[i])))

\* analyze_optimal_frequency(results): [ok, optimal_frequencies], ok = FALSE
\* being the ValueError of min() on an empty list.
analyze_optimal_frequency(res) ==
    OptimalLoop(res, SortedInts(res.keys), 1, EmptyDict)

----------------------------------------------------------------------------
(* Output files *)

\* The consolidated chart is drawn for at most this many algorithms.
MaxCombinedAlgos == 10

ChartFile(algo) == [kind |-> "energy_<algo>.png", algo |-> algo]
CombinedFile == [kind |-> "energy_vs_frequency.png", algo |-> 0]
ReportFile == [kind |-> "energy_frequency_report.txt", algo |-> 0]
CsvFile == [kind |-> "consolidated_data.csv", algo |-> 0]

\* What drawing one algorithm's bars does (lines 507-549 and 596-637):
\* "IndexError" for frequencies[0] of an empty list; "TypeError" when the
\* first frequency has a CI and the lower or upper bound of another is None
\* (a float minus None in the array subtraction); "none" otherwise.
DrawBars(res, algo) ==
    LET frequencies == SortedInts(res.val[algo].keys)
        energy(f) == res.val[algo].val[f].energy
    IN IF frequencies = <<>> THEN "IndexError"
       ELSE LET has_ci == energy(frequencies[1]).ci_lower # None
            IN IF has_ci /\ \E i \in DOMAIN frequencies :
                               \/ energy(frequencies[i]).ci_lower = None
                               \/ energy(frequencies[i]).ci_upper = None
               THEN "TypeError"
               ELSE "none"

\* plot_energy_vs_frequency_individual over algos[i..]: [error, files], the
\* charts saved before the loop ended.
RECURSIVE IndividualLoop(_, _, _, _)
IndividualLoop(res, algos, i, saved) ==
    IF i > Len(algos) THEN [error |-> "none", files |-> saved]
    ELSE LET e == DrawBars(res, algos[i])
         IN IF e # "none" THEN [error |-> e, files |-> saved]
            ELSE IndividualLoop(res, algos, i + 1,
                                Append(saved, ChartFile(algos[i])))

plot_energy_vs_frequency_individual(res) ==
    IndividualLoop(res, SortedInts(res.keys), 1, <<>>)

RECURSIVE CombinedLoop(_, _, _)
CombinedLoop(res, algos, i) ==
    IF i > Len(algos) THEN "none"
    ELSE LET e == DrawBars(res, algos[i])
         IN IF e # "none" THEN e ELSE CombinedLoop(res, algos, i + 1)

\* plot_energy_vs_frequency: [error, files].  More than MaxCombinedAlgos
\* algorithms: returns without a file; none: plt.subplots(1, 0) raises
\* ValueError; the file is saved after the last subplot.
plot_energy_vs_frequency(res) ==
    LET algorithms == SortedInts(res.keys)
    IN IF Len(algorithms) > MaxCombinedAlgos
       THEN [error |-> "none", files |-> <<>>]
       ELSE IF Len(algorithms) = 0
       THEN [error |-> "ValueError", files |-> <<>>]
       ELSE LET e == CombinedLoop(res, algorithms, 1)
            IN [error |-> e,
                files |-> IF e = "none" THEN <<CombinedFile>> ELSE <<>>]

\* The (algorithm, frequency) keys of res in the order of the two loops
\* "for algo in sorted(results.keys()): for freq in sorted(results[algo].keys())".
RECURSIVE SortedKeys(_, _, _)
SortedKeys(res, algos, i) ==
    IF i > Len(algos) THEN <<>>
    ELSE LET fs == SortedInts(res.val[algos[i]].keys)
         IN [j \in DOMAIN fs |-> <<algos[i], fs[j]>>]
            \o SortedKeys(res, algos, i + 1)

\* generate_frequency_report: what the text report holds, the record count
\* of its header (line 292) and one block per entry (lines 300-309).
generate_frequency_report(d, res) ==
    LET keys == SortedKeys(res, SortedInts(res.keys), 1)
    IN [total |-> Len(d),
        blocks |-> [i \in DOMAIN keys |->
                      [algorithm |-> keys[i][1],
                       frequency |-> keys[i][2],
                       n_samples |-> res.val[keys[i][1]].val[keys[i][2]].n_samples]]]

\* An empty field of a CSV line.
EmptyField == [k |-> "", num |-> 0, den |-> 1]

CsvFieldRaw(x) == x

\* One statistic as the field it becomes: "x if x is not None else ''" in
\* the row (lines 366-385), and to_csv writes '' and nan as nothing.
CsvField(x) == IF x = None \/ x = NaN THEN EmptyField ELSE x

CsvStats(st, unit) ==
    [valor |-> CsvField(st.mean),
     desvio |-> CsvField(st.std),
     ic95_lower |-> CsvField(st.ci_lower),
     ic95_upper |-> CsvField(st.ci_upper)]

\* generate_consolidated_csv: the lines of the file below its header.
generate_consolidated_csv(res) ==
    LET keys == SortedKeys(res, SortedInts(res.keys), 1)
    IN [i \in DOMAIN keys |->
          LET g == res.val[keys[i][1]].val[keys[i][2]]
          IN [algoritmo |-> keys[i][1],
              cpu_frequency_mhz |-> keys[i][2],
              n_observacoes |-> g.n_samples,
              energia |-> CsvStats(g.energy, "J"),
              tempo |-> CsvStats(g.time, "ms"),
              edp |-> CsvStats(g.edp, "J_ms"),
              correlacao_energia_tempo |-> CsvField(g.correlation.value),
              correlacao_p_value |-> CsvField(g.correlation.p_value)]]

----------------------------------------------------------------------------
(* The inputs of a run *)

Algos == {1, 2}

\* (joules, time_ms) of a measured row.
Measurements == {<<0, 1>>, <<1, 1>>, <<3, 3>>}

Name1500 == <<"r", "u", "n", "-", "1", "5", "0", "0", "m", "h", "z",
              ".", "c", "s", "v">>
Name500 == <<"r", "u", "n", "-", "5", "0", "0", "M", "H", "z",
             ".", "c", "s", "v">>
NameNone == <<"r", "u", "n", ".", "c", "s", "v">>

\* The rows a file without a freq_mhz column may hold.
OldRows ==
    {[algo |-> a, joules |-> m[1], time_ms |-> m[2], freq_mhz |-> 0] :
        a \in Algos, m \in Measurements}

OldFile(name, rows) ==
    [name |-> name, columns |-> required_columns, rows |-> rows]

\* The rows of the datasets that differ only in which groups are empty,
\* hold one row or hold several: every row carries the same measurement.
ShapeRows ==
    {[algo |-> a, joules |-> 1, time_ms |-> 3, freq_mhz |-> 0] : a \in Algos}

\* A directory holding the three files.
Directory(r1, r2, r3) ==
    [kind |-> "dir",
     files |-> {OldFile(Name1500, r1), OldFile(Name500, r2),
                OldFile(NameNone, r3)}]

\* The values a freq_mhz column holds.
FreqMhzValues == {500, 800}

\* The rows a file with a freq_mhz column may hold.
NewRows ==
    {[algo |-> a, joules |-> 1, time_ms |-> 3, freq_mhz |-> f] :
        a \in Algos, f \in FreqMhzValues}

\* A file of the new format (has_freq) or of the old one, written without
\* the columns in missing.
FormatFile(name, has_freq, missing, rows) ==
    [name |-> name,
     columns |-> ({"algo", "joules", "time_ms"} \ missing)
                   \cup (IF has_freq THEN {"freq_mhz"} ELSE {}),
     rows |-> rows]

FormatRows(has_freq) == IF has_freq THEN NewRows ELSE ShapeRows

\* The column a set of files may have been written without (at most one).
MissingChoices == {{}, {"algo"}, {"joules"}, {"time_ms"}}

SingleFile(f) == [kind |-> "file", files |-> {f}]
TwoFiles(f1, f2) == [kind |-> "dir", files |-> {f1, f2}]

\* A directory without CSV files, and a path that does not exist.
EmptyDirectory == [kind |-> "dir", files |-> {}]
MissingPath == [kind |-> "missing", files |-> {}]

----------------------------------------------------------------------------
(* main and run_analysis *)

Init ==
    /\ pc = "start"
    /\ data = <<>>
    /\ analyze_calls = 0
    /\ results = EmptyDict
    /\ prev_results = EmptyDict
    /\ rng = 0
    /\ edp_ranking = <<>>
    /\ edp_report = EmptyDict
    /\ optimal_frequencies = EmptyDict
    /\ files = <<>>
    /\ error = "none"
    /\ csv_source = [kind |-> "none", files |-> {}]
    /\ printed = <<>>
    /\ text_report = <<>>
    /\ csv = <<>>

\* The two lines main prints for a source that is neither a path nor a
\* pattern with a match (lines 737-738).
NotFoundLines ==
    <<Msg("main", "Fonte nao encontrada", 0), Msg("main", "Dica", 0)>>

\* except Exception as e: print(f"Erro: {e}")  in main (lines 744-745)
MainExcept == <<Msg("main", "Erro", 0)>>

\* except Exception as e: print(f"Erro: {e}"); raise  in run_analysis
\* (lines 706-708), the exception then reaching the handler of main.
RunAnalysisExcept == <<Msg("run_analysis", "Erro", 0)>> \o MainExcept

\* main, lines 733-742, on the source src: the source check and
\* EnergyTimeAnalysis(csv_source), whose __init__ calls load_data.
MainOn(src) ==
    /\ csv_source' = src
    /\ IF src.kind = "missing"
       THEN /\ pc' = "not_found"
            /\ printed' = NotFoundLines
            /\ UNCHANGED <<data, error>>
       ELSE LET l == load_data(src)
            IN IF l.ok
               THEN /\ pc' = "loaded"
                    /\ data' = l.data
                    /\ printed' = l.printed
                    /\ UNCHANGED error
               ELSE /\ pc' = "load_failed"
                    /\ error' = "ValueError"
                    /\ printed' = l.printed \o MainExcept
                    /\ UNCHANGED data
    /\ UNCHANGED <<analyze_calls, results, prev_results, rng, edp_ranking,
                   edp_report, optimal_frequencies, files, text_report, csv>>

\* main is started on a directory of three files with at most max rows in
\* all, each row drawn from rows, on a directory without CSV files, or on
\* a path that does not exist.
MainStarts(max, rows) ==
    /\ pc = "start"
    /\ \E k1 \in 0..max : \E k2 \in 0..(max - k1) : \E k3 \in 0..(max - k1 - k2) :
         \E r1 \in [1..k1 -> rows], r2 \in [1..k2 -> rows], r3 \in [1..k3 -> rows] :
           \E src \in {Directory(r1, r2, r3), EmptyDirectory, MissingPath} :
             MainOn(src)

MainResolve == MainStarts(MaxRows, OldRows)

MainResolveShapes == MainStarts(MaxShapeRows, ShapeRows)

\* main is started on a single file, or on a directory of two files, each
\* file of either format, both named with a frequency.
MainResolveFormats ==
    /\ pc = "start"
    /\ \E missing \in MissingChoices : \E h1, h2 \in BOOLEAN :
         \E k1, k2 \in 0..MaxFormatRows :
           \E r1 \in [1..k1 -> FormatRows(h1)], r2 \in [1..k2 -> FormatRows(h2)] :
             \E src \in {SingleFile(FormatFile(Name1500, h1, missing, r1)),
                          TwoFiles(FormatFile(Name1500, h1, missing, r1),
                                   FormatFile(Name500, h2, missing, r2))} :
               MainOn(src)

\* results = self.analyze()  (line 670)
Analyze ==
    /\ pc = "loaded"
    /\ LET r == analyze(data, rng)
       IN /\ results' = r.results
          /\ rng' = r.rng
    /\ prev_results' = results
    /\ analyze_calls' = analyze_calls + 1
    /\ pc' = "analyzed"
    /\ UNCHANGED <<data, edp_ranking, edp_report, optimal_frequencies, files,
                   error, csv_source, printed, text_report, csv>>

AnalyzeEnergyEfficiencyEdpDroppingRows ==
    /\ pc = "analyzed"
    /\ LET r == analyze_energy_efficiency_edp(results)
       IN /\ edp_report' = r.report
          /\ IF r.ok
             THEN /\ edp_ranking' = r.ranking
                  /\ pc' = "ranked"
                  /\ UNCHANGED <<error, printed>>
             ELSE /\ pc' = "failed"
                  /\ error' = "ValueError"
                  /\ printed' = printed \o RunAnalysisExcept
                  /\ UNCHANGED edp_ranking
    /\ data' = IF data = <<>> THEN data ELSE Tail(data)
    /\ UNCHANGED <<analyze_calls, results, prev_results, rng,
                   optimal_frequencies, files, csv_source, text_report, csv>>

\* self.analyze_energy_efficiency_edp(results)  (line 673)
AnalyzeEnergyEfficiencyEdp ==
    /\ pc = "analyzed"
    /\ LET r == analyze_energy_efficiency_edp(results)
       IN /\ edp_report' = r.report
          /\ IF r.ok
             THEN /\ edp_ranking' = r.ranking
                  /\ pc' = "ranked"
                  /\ UNCHANGED <<error, printed>>
             ELSE /\ pc' = "failed"
                  /\ error' = "ValueError"
                  /\ printed' = printed \o RunAnalysisExcept
                  /\ UNCHANGED edp_ranking
    /\ UNCHANGED <<data, analyze_calls, results, prev_results, rng,
                   optimal_frequencies, files, csv_source, text_report, csv>>

\* self.analyze_optimal_frequency(results)  (line 676)
AnalyzeOptimalFrequency ==
    /\ pc = "ranked"
    /\ LET r == analyze_optimal_frequency(results)
       IN IF r.ok
          THEN /\ optimal_frequencies' = r.optimal_frequencies
               /\ pc' = "selected"
               /\ UNCHANGED <<error, printed>>
          ELSE /\ pc' = "failed"
               /\ error' = "ValueError"
               /\ printed' = printed \o RunAnalysisExcept
               /\ UNCHANGED optimal_frequencies
    /\ UNCHANGED <<data, analyze_calls, results, prev_results, rng,
                   edp_ranking, edp_report, files, csv_source, text_report, csv>>

\* os.makedirs and self.plot_energy_vs_frequency_individual  (lines 679-685)
PlotIndividual ==
    /\ pc = "selected"
    /\ LET r == plot_energy_vs_frequency_individual(results)
       IN /\ files' = files \o r.files
          /\ error' = r.error
          /\ pc' = IF r.error = "none" THEN "charted" ELSE "failed"
          /\ printed' = IF r.error = "none" THEN printed
                        ELSE printed \o RunAnalysisExcept
    /\ UNCHANGED <<data, analyze_calls, results, prev_results, rng,
                   edp_ranking, edp_report, optimal_frequencies, csv_source,
                   text_report, csv>>

\* self.plot_energy_vs_frequency  (line 688)
PlotCombined ==
    /\ pc = "charted"
    /\ LET r == plot_energy_vs_frequency(results)
       IN /\ files' = files \o r.files
          /\ error' = r.error
          /\ pc' = IF r.error = "none" THEN "combined" ELSE "failed"
          /\ printed' = IF r.error = "none" THEN printed
                        ELSE printed \o RunAnalysisExcept
    /\ UNCHANGED <<data, analyze_calls, results, prev_results, rng,
                   edp_ranking, edp_report, optimal_frequencies, csv_source,
                   text_report, csv>>

\* self.generate_frequency_report(results)  (line 691)
GenerateFrequencyReport ==
    /\ pc = "combined"
    /\ files' = Append(files, ReportFile)
    /\ text_report' = <<generate_frequency_report(data, results)>>
    /\ pc' = "reported"
    /\ UNCHANGED <<data, analyze_calls, results, prev_results, rng,
                   edp_ranking, edp_report, optimal_frequencies, error,
                   csv_source, printed, csv>>

\* self.generate_consolidated_csv(results, ...)  (line 694)
GenerateConsolidatedCsv ==
    /\ pc = "reported"
    /\ files' = Append(files, CsvFile)
    /\ csv' = generate_consolidated_csv(results)
    /\ pc' = "done"
    /\ UNCHANGED <<data, analyze_calls, results, prev_results, rng,
                   edp_ranking, edp_report, optimal_frequencies, error,
                   csv_source, printed, text_report>>

\* analyzer.analyze() called again on the same object.
AnalyzeAgain ==
    /\ pc = "analyzed"
    /\ analyze_calls < MaxAnalyzeCalls
    /\ LET r == analyze(data, rng)
       IN /\ results' = r.results
          /\ rng' = r.rng
    /\ prev_results' = results
    /\ analyze_calls' = analyze_calls + 1
    /\ UNCHANGED <<pc, data, edp_ranking, edp_report, optimal_frequencies,
                   files, error, csv_source, printed, text_report, csv>>

RunAnalysis ==
    \/ Analyze
    \/ AnalyzeEnergyEfficiencyEdp
    \/ AnalyzeOptimalFrequency
    \/ PlotIndividual
    \/ PlotCombined
    \/ GenerateFrequencyReport
    \/ GenerateConsolidatedCsv

\* One run of main.
Next == MainResolve \/ RunAnalysis

Spec == Init /\ [][Next]_vars

\* One run of main on the datasets that differ in the shape of their groups.
NextShapes == MainResolveShapes \/ RunAnalysis

SpecShapes == Init /\ [][NextShapes]_vars

\* One run of main on files of the two formats.
NextFormats == MainResolveFormats \/ RunAnalysis

SpecFormats == Init /\ [][NextFormats]_vars

\* An analyzer object whose analyze method is called more than once.
NextApi == MainResolve \/ Analyze \/ AnalyzeAgain

SpecApi == Init /\ [][NextApi]_vars

----------------------------------------------------------------------------
(* What the claims are stated in *)

AnalyzeReturned == analyze_calls >= 1

\* The positions of run_analysis after analyze_energy_efficiency_edp and
\* after analyze_optimal_frequency returned.
AfterRanking == {"ranked", "selected", "charted", "combined", "reported", "done"}
AfterSelection == {"selected", "charted", "combined", "reported", "done"}

\* The rows of the dataset with algorithm a and frequency f.
RowsOf(a, f) ==
    {i \in DOMAIN data : data[i].algo = a /\ data[i].cpu_frequency_mhz = f}

AlgosInData == {data[i].algo : i \in DOMAIN data}
FreqsInData == {data[i].cpu_frequency_mhz : i \in DOMAIN data}

RECURSIVE SumOf(_, _)
SumOf(f, S) ==
    IF S = {} THEN 0
    ELSE LET x == CHOOSE y \in S : TRUE IN f[x] + SumOf(f, S \ {x})

Joules == [i \in DOMAIN data |-> data[i].joules]
TimeMs == [i \in DOMAIN data |-> data[i].time_ms]
RowProducts == [i \in DOMAIN data |-> data[i].joules * data[i].time_ms]

HasEntry(a, f) == DictHas(results, a) /\ DictHas(results.val[a], f)
Group(a, f) == results.val[a].val[f]

\* The (algorithm, frequency) pairs of the result map.
Entries ==
    {p \in Range(results.keys) \X (FreqsInData \cup {NaoIdentificado}) :
        HasEntry(p[1], p[2])}

----------------------------------------------------------------------------
(* C1 *)

\* C1: once analyze has returned, the result map has an entry for the pair
\* (a, f) exactly when the dataset has a row with algorithm a and the known
\* frequency f; in particular no pair is keyed by the sentinel and no pair
\* without rows has an entry.
C1_EntriesAreTheObservedPairs ==
    AnalyzeReturned =>
        /\ Range(results.keys) \subseteq AlgosInData
        /\ \A a \in Range(results.keys) :
             Range(results.val[a].keys) \subseteq FreqsInData
        /\ \A a \in AlgosInData \cup Algos :
             \A f \in FreqsInData \cup {NaoIdentificado} :
               HasEntry(a, f) <=> (f # NaoIdentificado /\ RowsOf(a, f) # {})

\* Witness: a result map with an entry, a pair of a present algorithm and a
\* present known frequency left out for having no row, and a row of
\* unidentified frequency in the dataset.
C1_Witness ==
    /\ AnalyzeReturned
    /\ Entries # {}
    /\ \E a \in AlgosInData : \E f \in FreqsInData :
         f # NaoIdentificado /\ RowsOf(a, f) = {} /\ ~HasEntry(a, f)
    /\ NaoIdentificado \in FreqsInData

----------------------------------------------------------------------------
(* C2 *)

\* Every group of the dataset holds exactly one row.
AllGroupsSingleton ==
    \A a \in AlgosInData : \A f \in FreqsInData \ {NaoIdentificado} :
        Cardinality(RowsOf(a, f)) <= 1

IsAbsent(st) ==
    /\ IsNum(st.mean)
    /\ st.std = None /\ st.ci_lower = None /\ st.ci_upper = None

\* The statistics half of C2: a group of one row has n_samples = 1, the
\* three means, and no standard deviation, interval or correlation.
SingletonStatistics ==
    (AnalyzeReturned /\ AllGroupsSingleton) =>
        \A p \in Entries :
            LET g == Group(p[1], p[2])
            IN /\ g.n_samples = 1
               /\ IsAbsent(g.energy) /\ IsAbsent(g.time) /\ IsAbsent(g.edp)
               /\ g.correlation.value = None
               /\ g.correlation.p_value = None

\* C2: for a loaded dataset (of at least one row) whose groups all hold
\* exactly one row, every group has the statistics of a singleton and the
\* run does not end in an exception.
C2_SingletonRunCompletes ==
    /\ SingletonStatistics
    /\ (Len(data) >= 1 /\ AllGroupsSingleton) => pc # "failed"

----------------------------------------------------------------------------
(* C3 *)

\* C3: the EDP mean of every group is the mean of the products
\* joules[i] * time_ms[i] over the group's rows, and where that differs
\* from mean(joules) * mean(time_ms) it is not the latter.
C3_EdpMeanIsMeanOfProducts ==
    AnalyzeReturned =>
        \A p \in Entries :
            LET rows == RowsOf(p[1], p[2])
                n == Cardinality(rows)
                ofProducts == Num(SumOf(RowProducts, rows), n)
                ofMeans == Num(SumOf(Joules, rows) * SumOf(TimeMs, rows), n * n)
                edp_mean == Group(p[1], p[2]).edp.mean
            IN /\ FEq(edp_mean, ofProducts)
               /\ ~FEq(ofProducts, ofMeans) => ~FEq(edp_mean, ofMeans)

\* Witness: a group with joules = [1, 3] and time_ms = [1, 3], whose EDP
\* mean is 5 and not 2 * 2 = 4.
C3_Witness ==
    /\ AnalyzeReturned
    /\ \E p \in Entries :
         LET rows == RowsOf(p[1], p[2])
         IN /\ Cardinality(rows) = 2
            /\ {<<data[i].joules, data[i].time_ms>> : i \in rows}
                  = {<<1, 1>>, <<3, 3>>}
            /\ FEq(Group(p[1], p[2]).edp.mean, Num(5, 1))
            /\ ~FEq(Group(p[1], p[2]).edp.mean, Num(4, 1))

----------------------------------------------------------------------------
(* C4 *)

\* Position of the pair (algorithm, frequency) in the order algorithms
\* ascending, then frequencies ascending.
Before(x, y) ==
    \/ x.algorithm < y.algorithm
    \/ x.algorithm = y.algorithm /\ x.frequency < y.frequency

\* C4: the ranking returned by analyze_energy_efficiency_edp is in ascending
\* order of mean EDP, and two entries of equal mean EDP are in the order
\* algorithm ascending, then frequency ascending.
C4_RankingAscendingAndStable ==
    pc \in AfterRanking =>
        \A i, j \in DOMAIN edp_ranking :
            i < j =>
                /\ FLeq(edp_ranking[i].edp, edp_ranking[j].edp)
                /\ FEq(edp_ranking[i].edp, edp_ranking[j].edp)
                      => Before(edp_ranking[i], edp_ranking[j])

\* Witness: a ranking of three entries that the sort had to reorder and
\* that holds two entries of equal mean EDP.
C4_Witness ==
    /\ pc = "ranked"
    /\ Len(edp_ranking) = 3
    /\ edp_ranking # CollectEntries(results, 1)
    /\ \E i, j \in DOMAIN edp_ranking :
         i < j /\ FEq(edp_ranking[i].edp, edp_ranking[j].edp)

----------------------------------------------------------------------------
(* C5 *)

EdpMean(a, f) == Group(a, f).edp.mean
EnergyMean(a, f) == Group(a, f).energy.mean
FreqsOf(a) == Range(results.val[a].keys)

\* p = ((hi - lo) / hi) * 100 in float arithmetic: the quotient when hi is
\* not zero, nan for the 0/0 the expression is when hi = lo = 0.
IsPercentOf(p, hi, lo) ==
    IF hi.num = 0 /\ lo.num = 0 THEN p = NaN
    ELSE /\ IsNum(p)
         /\ p.num * hi.num * lo.den = 100 * (hi.num * lo.den - lo.num * hi.den) * p.den

\* C5: for every algorithm the EDP analysis reported on (every algorithm of
\* the result map once it has returned), the best configuration is a
\* frequency of the algorithm whose mean EDP is <= that of each of its
\* frequencies, the worst one whose mean EDP is >= each, and the improvement
\* is (worst_edp - best_edp) / worst_edp * 100.
C5_BestWorstByEdp ==
    /\ pc \in AfterRanking => Range(edp_report.keys) = Range(results.keys)
    /\ AnalyzeReturned =>
         \A a \in Range(edp_report.keys) :
            LET r == edp_report.val[a]
            IN /\ r.best_freq \in FreqsOf(a)
               /\ r.worst_freq \in FreqsOf(a)
               /\ r.best_edp = EdpMean(a, r.best_freq)
               /\ r.worst_edp = EdpMean(a, r.worst_freq)
               /\ \A f \in FreqsOf(a) :
                     /\ FLeq(r.best_edp, EdpMean(a, f))
                     /\ FLeq(EdpMean(a, f), r.worst_edp)
               /\ IsPercentOf(r.improvement, r.worst_edp, r.best_edp)

\* Witness: an algorithm with two frequencies of different mean EDP, the
\* best one being the higher frequency, with a positive improvement.
C5_Witness ==
    /\ pc = "ranked"
    /\ \E a \in Range(edp_report.keys) :
         LET r == edp_report.val[a]
         IN /\ r.best_freq > r.worst_freq
            /\ FLt(r.best_edp, r.worst_edp)
            /\ FLt(Num(0, 1), r.improvement)

----------------------------------------------------------------------------
(* C6 *)

\* C6: for every algorithm, optimal_freq is the lowest of the algorithm's
\* frequencies with the least mean energy, max_freq is the highest of the
\* algorithm's own frequencies, and energy_savings is
\* (energy_at_max_freq - min_energy) / energy_at_max_freq * 100.
C6_OptimalFrequency ==
    pc \in AfterSelection =>
        /\ Range(optimal_frequencies.keys) = Range(results.keys)
        /\ \A a \in Range(results.keys) :
             LET o == optimal_frequencies.val[a]
             IN /\ o.optimal_freq \in FreqsOf(a)
                /\ o.min_energy = EnergyMean(a, o.optimal_freq)
                /\ \A f \in FreqsOf(a) :
                      /\ FLeq(o.min_energy, EnergyMean(a, f))
                      /\ f < o.optimal_freq => FLt(o.min_energy, EnergyMean(a, f))
                      /\ f <= o.max_freq
                /\ o.max_freq \in FreqsOf(a)
                /\ o.max_freq_energy = EnergyMean(a, o.max_freq)
                /\ IsPercentOf(o.energy_savings, o.max_freq_energy, o.min_energy)

\* Witness: an algorithm whose two frequencies tie on mean energy, with the
\* lower one chosen, beside an algorithm whose highest frequency is below
\* the highest frequency of the dataset.
C6_Witness ==
    /\ pc = "selected"
    /\ \E a \in Range(results.keys) :
         /\ Cardinality(FreqsOf(a)) = 2
         /\ \A f \in FreqsOf(a) :
               /\ FEq(EnergyMean(a, f), optimal_frequencies.val[a].min_energy)
               /\ optimal_frequencies.val[a].optimal_freq <= f
    /\ \E b \in Range(results.keys) : \E f \in FreqsInData :
         optimal_frequencies.val[b].max_freq < f

----------------------------------------------------------------------------
(* C7 *)

Zero == Num(0, 1)

\* C7: for an algorithm tested at exactly one frequency f, the EDP analysis
\* reports f as best and as worst with 0% improvement, and the
\* optimal-frequency selection reports optimal_freq = max_freq = f with 0%
\* energy savings.
C7_SingleFrequencyIsZeroPercent ==
    pc \in AfterSelection =>
        \A a \in Range(results.keys) :
            Cardinality(FreqsOf(a)) = 1 =>
                LET r == edp_report.val[a]
                    o == optimal_frequencies.val[a]
                IN /\ FreqsOf(a) = {r.best_freq}
                   /\ FreqsOf(a) = {r.worst_freq}
                   /\ FEq(r.improvement, Zero)
                   /\ FreqsOf(a) = {o.optimal_freq}
                   /\ FreqsOf(a) = {o.max_freq}
                   /\ FEq(o.energy_savings, Zero)

----------------------------------------------------------------------------
(* C8 *)

\* C8: a second call of analyze on the same dataset returns the result map
\* the first call returned, confidence bounds included.
C8_AnalyzeIsReproducible ==
    analyze_calls >= 2 => results = prev_results

\* Witness: analyze has been called twice on a dataset with a group whose
\* energy interval was drawn by the bootstrap.
C8_Witness ==
    /\ analyze_calls = 2
    /\ \E p \in Entries :
         /\ IsNum(Group(p[1], p[2]).energy.ci_lower)
         /\ FLt(Group(p[1], p[2]).energy.ci_lower,
                Group(p[1], p[2]).energy.ci_upper)

----------------------------------------------------------------------------
(* C9 *)

Brackets(st) == FLeq(st.ci_lower, st.mean) /\ FLeq(st.mean, st.ci_upper)

\* C9: for every group of two or more rows, the stored interval of each of
\* energy, time and EDP satisfies ci_lower <= mean <= ci_upper.
C9_IntervalBracketsMean ==
    AnalyzeReturned =>
        \A p \in Entries :
            LET g == Group(p[1], p[2])
            IN g.n_samples >= 2 =>
                  Brackets(g.energy) /\ Brackets(g.time) /\ Brackets(g.edp)

----------------------------------------------------------------------------
(* C10 *)

\* C10: a run that ended in an exception has written no output file.
C10_NoOutputOfAFailedRun ==
    pc = "failed" => files = <<>>

----------------------------------------------------------------------------
(* C11 *)

\* The run has a loaded dataset.
Loaded == pc \notin {"start", "not_found", "load_failed"}

RECURSIVE RowCount(_)
RowCount(fs) ==
    IF fs = {} THEN 0
    ELSE LET f == CHOOSE g \in fs : TRUE
         IN Len(f.rows) + RowCount(fs \ {f})

\* The rows all files of the source hold.
SourceRowCount == RowCount(csv_source.files)

\* The files of the source whose frequency cannot be determined.
UnidentifiedFiles ==
    {f \in csv_source.files :
        /\ "freq_mhz" \notin f.columns
        /\ extract_frequency_from_filename(f.name) = None}

Unidentified == {i \in DOMAIN data : data[i].cpu_frequency_mhz = NaoIdentificado}

MeanIs(m, values, rows) ==
    IsNum(m) /\ m.num * Cardinality(rows) = SumOf(values, rows) * m.den

\* C11: the rows of the files whose frequency cannot be determined stay in
\* the dataset under the sentinel and are counted in the record count the
\* loader prints and the text report holds; no group of the result map is
\* keyed by the sentinel, and the n_samples and means of every group are
\* those of the rows of known frequency only.
C11_UnidentifiedRowsAreNotGrouped ==
    /\ Loaded =>
          /\ Len(data) = SourceRowCount
          /\ \A f \in UnidentifiedFiles :
                Cardinality({i \in Unidentified : data[i].source_file = f.name})
                    = Len(f.rows)
          /\ printed # <<>>
          /\ printed[1] = Msg("load_data", "Total de registros", SourceRowCount)
    /\ text_report # <<>> => text_report[1].total = SourceRowCount
    /\ AnalyzeReturned =>
          \A p \in Entries :
             LET g == Group(p[1], p[2])
                 rows == RowsOf(p[1], p[2]) \ Unidentified
             IN /\ p[2] # NaoIdentificado
                /\ g.n_samples = Cardinality(rows)
                /\ MeanIs(g.energy.mean, Joules, rows)
                /\ MeanIs(g.time.mean, TimeMs, rows)
                /\ MeanIs(g.edp.mean, RowProducts, rows)

\* Witness: a finished run on a dataset holding a row of unidentified
\* frequency beside rows of the same algorithm with a known one; the report
\* counts more records than its groups hold.
C11_Witness ==
    /\ pc = "done"
    /\ \E i \in Unidentified : \E j \in DOMAIN data \ Unidentified :
          data[i].algo = data[j].algo
    /\ text_report[1].total = Len(data)
    /\ Len(text_report[1].blocks) >= 1
    /\ \A b \in Range(text_report[1].blocks) :
          b.n_samples < text_report[1].total

----------------------------------------------------------------------------
(* C12 *)

\* The rows of the dataset loaded from the file f, in order.
RowsFrom(f) == SelectSeq(data, LAMBDA r : r.source_file = f.name)

\* C12: every row loaded from a file with a freq_mhz column carries the
\* value of that column as its frequency, whatever the file name says, on
\* the single-file path and for each file of a directory; a file without
\* the column beside it keeps the frequency of its name.
C12_ColumnTakesPrecedence ==
    Loaded =>
        \A f \in csv_source.files :
            /\ Len(RowsFrom(f)) = Len(f.rows)
            /\ \A j \in DOMAIN f.rows :
                  RowsFrom(f)[j].cpu_frequency_mhz =
                      IF "freq_mhz" \in f.columns THEN f.rows[j].freq_mhz
                      ELSE extract_frequency_from_filename(f.name).num

\* Witness: a directory loaded from a file with the column, named with
\* another frequency than its rows hold, and a file without the column.
C12_Witness ==
    /\ Loaded
    /\ csv_source.kind = "dir"
    /\ \E f, g \in csv_source.files :
          /\ "freq_mhz" \in f.columns
          /\ "freq_mhz" \notin g.columns
          /\ g.rows # <<>>
          /\ \E j \in DOMAIN f.rows :
                /\ f.rows[j].freq_mhz # extract_frequency_from_filename(f.name).num
                /\ RowsFrom(f)[j].cpu_frequency_mhz = f.rows[j].freq_mhz

----------------------------------------------------------------------------
(* C13 *)

\* The columns of the concatenated frame.
SourceColumns == UNION {f.columns : f \in csv_source.files}

\* C13: when the files of the source lack one of the columns algo, joules
\* and time_ms, loading ends in a ValueError: no dataset is kept and
\* analyze is never called.
C13_MissingColumnFailsLoading ==
    (csv_source.files # {}
       /\ \E c \in {"algo", "joules", "time_ms"} : c \notin SourceColumns)
    => /\ pc = "load_failed"
       /\ error = "ValueError"
       /\ data = <<>>
       /\ analyze_calls = 0

\* Witness: loading failed on a file with rows that has every column but
\* time_ms.
C13_Witness ==
    /\ pc = "load_failed"
    /\ \E f \in csv_source.files : f.rows # <<>>
    /\ SourceColumns = {"algo", "joules", "freq_mhz"}

----------------------------------------------------------------------------
(* C14 *)

\* C14: analyze does not return for a loaded dataset without rows.
C14_AnalyzeFailsOnEmptyDataset ==
    (Loaded /\ data = <<>>) => analyze_calls = 0

----------------------------------------------------------------------------
(* C15 *)

ErrorLines == SelectSeq(printed, LAMBDA m : m.text = "Erro")

\* C15: a source that resolves to nothing makes main print its diagnostic
\* and return without loading; a failure of loading or of a step of the
\* analysis ends the run with a single error message printed, whichever
\* the failure was.
C15_OneMessagePerFailure ==
    /\ pc = "not_found" =>
          /\ printed # <<>>
          /\ \A i \in DOMAIN printed : printed[i].by = "main"
          /\ data = <<>>
    /\ pc \in {"load_failed", "failed"} => Len(ErrorLines) = 1

----------------------------------------------------------------------------
(* C16 *)

\* C16: after analyze, the EDP ranking and the optimal-frequency selection
\* the dataset is the one load_data built from the source, and the result
\* map is the one analyze returned for it.
C16_DatasetAndResultsAreKept ==
    /\ Loaded => data = load_data(csv_source).data
    /\ AnalyzeReturned => results = analyze(data, rng).results

\* Witness: the selection has returned for a dataset of three rows whose
\* ranking is not in the order of the result map.
C16_Witness ==
    /\ pc = "selected"
    /\ Len(data) = 3
    /\ edp_ranking # CollectEntries(results, 1)
    /\ optimal_frequencies.keys # <<>>

----------------------------------------------------------------------------
(* C17 *)

\* plot_energy_vs_frequency_individual has been called and has ended.
ChartsEnded ==
    \/ pc \in {"charted", "combined", "reported", "done"}
    \/ pc = "failed" /\ error = "TypeError"

\* C17: once plot_energy_vs_frequency_individual has ended, there is
\* exactly one chart file for every algorithm of the result map.
C17_OneChartPerAlgorithm ==
    ChartsEnded =>
        \A a \in Range(results.keys) :
            Cardinality({i \in DOMAIN files : files[i] = ChartFile(a)}) = 1

----------------------------------------------------------------------------
(* C18 *)

IsEmptyStats(st) ==
    /\ IsNum(st.valor)
    /\ st.desvio = EmptyField
    /\ st.ic95_lower = EmptyField
    /\ st.ic95_upper = EmptyField

\* C18: the consolidated CSV has one line for every entry of the result
\* map and no other, in the order algorithm, then frequency; every line
\* holds n and the three means, and the line of a group of one row has
\* empty fields for the deviations, the interval bounds, the correlation
\* and its p-value.
C18_ConsolidatedCsvRows ==
    pc = "done" =>
        /\ {<<csv[i].algoritmo, csv[i].cpu_frequency_mhz>> : i \in DOMAIN csv}
              = Entries
        /\ Len(csv) = Cardinality(Entries)
        /\ \A i, j \in DOMAIN csv :
              i < j =>
                \/ csv[i].algoritmo < csv[j].algoritmo
                \/ /\ csv[i].algoritmo = csv[j].algoritmo
                   /\ csv[i].cpu_frequency_mhz < csv[j].cpu_frequency_mhz
        /\ \A i \in DOMAIN csv :
              LET g == Group(csv[i].algoritmo, csv[i].cpu_frequency_mhz)
              IN /\ csv[i].n_observacoes = g.n_samples
                 /\ csv[i].energia.valor = g.energy.mean
                 /\ csv[i].tempo.valor = g.time.mean
                 /\ csv[i].edp.valor = g.edp.mean
                 /\ g.n_samples = 1 =>
                       /\ IsEmptyStats(csv[i].energia)
                       /\ IsEmptyStats(csv[i].tempo)
                       /\ IsEmptyStats(csv[i].edp)
                       /\ csv[i].correlacao_energia_tempo = EmptyField
                       /\ csv[i].correlacao_p_value = EmptyField

\* Witness: a written CSV of three lines over two algorithms, one of them
\* of a group of one row and one of a group of two.
C18_Witness ==
    /\ pc = "done"
    /\ Len(csv) >= 2
    /\ \E i, j \in DOMAIN csv :
          /\ csv[i].n_observacoes = 1
          /\ csv[i].energia.desvio = EmptyField
          /\ csv[j].n_observacoes = 2
          /\ csv[j].energia.desvio # EmptyField

----------------------------------------------------------------------------
(* C19 *)

\* n times the sum of the squared deviations of values over rows from
\* their mean: n * sum(x^2) - sum(x)^2.
Scatter(values, rows) ==
    Cardinality(rows) * SumOf([i \in DOMAIN values |-> values[i] * values[i]], rows)
        - SumOf(values, rows) * SumOf(values, rows)

\* std is the square root of a number whose product with n - 1 is the sum
\* of the squared deviations, and not the one whose product with n is.
IsSampleStd(std, values, rows) ==
    LET n == Cardinality(rows)
    IN /\ std.k = "sqrt"
       /\ std.den # 0
       /\ std.num * (n - 1) * n = Scatter(values, rows) * std.den
       /\ Scatter(values, rows) # 0 =>
             std.num * n * n # Scatter(values, rows) * std.den

\* C19: for every group of two or more rows, the stored standard deviation
\* of energy, time and EDP is the sample standard deviation with divisor
\* n - 1.
C19_StdUsesBesselCorrection ==
    AnalyzeReturned =>
        \A p \in Entries :
            LET g == Group(p[1], p[2])
                rows == RowsOf(p[1], p[2])
            IN g.n_samples >= 2 =>
                  /\ IsSampleStd(g.energy.std, Joules, rows)
                  /\ IsSampleStd(g.time.std, TimeMs, rows)
                  /\ IsSampleStd(g.edp.std, RowProducts, rows)

\* Witness: a group of three rows whose energies, times and products all
\* vary.
C19_Witness ==
    /\ AnalyzeReturned
    /\ \E p \in Entries :
          LET rows == RowsOf(p[1], p[2])
          IN /\ Group(p[1], p[2]).n_samples = 3
             /\ Scatter(Joules, rows) # 0
             /\ Scatter(TimeMs, rows) # 0
             /\ Scatter(RowProducts, rows) # 0

----------------------------------------------------------------------------
(* C20 *)

\* C20: after analyze, every algorithm of the result map has at least one
\* frequency entry.
C20_NoAlgorithmWithoutFrequency ==
    AnalyzeReturned =>
        \A a \in Range(results.keys) : results.val[a].keys # <<>>

----------------------------------------------------------------------------
(* C21 *)

\* The rows of the dataset whose frequency is known.
KnownRows == DOMAIN data \ Unidentified

NSamples == [p \in Entries |-> Group(p[1], p[2]).n_samples]

\* C21: every row of known frequency is counted in the group of its own
\* algorithm and frequency and in no other: each group's n_samples is the
\* number of its rows and is at least 1, and the n_samples of all groups
\* add up to the number of rows of known frequency.
C21_GroupsPartitionKnownRows ==
    AnalyzeReturned =>
        /\ \A i \in KnownRows : HasEntry(data[i].algo, data[i].cpu_frequency_mhz)
        /\ \A p \in Entries :
              /\ NSamples[p] >= 1
              /\ NSamples[p] = Cardinality(RowsOf(p[1], p[2]))
        /\ SumOf(NSamples, Entries) = Cardinality(KnownRows)

\* Witness: two groups of one algorithm beside a row of the same algorithm
\* whose frequency is unidentified, counted in neither.
C21_Witness ==
    /\ AnalyzeReturned
    /\ Cardinality(Entries) = 2
    /\ \E p, q \in Entries : p # q /\ p[1] = q[1]
    /\ \E i \in Unidentified : \E p \in Entries : data[i].algo = p[1]
    /\ SumOf(NSamples, Entries) < Len(data)

----------------------------------------------------------------------------
(* C22 *)

\* The position of the first entry of algorithm a in the ranking.
FirstOf(a) ==
    CHOOSE i \in DOMAIN edp_ranking :
        /\ edp_ranking[i].algorithm = a
        /\ \A j \in 1..(i - 1) : edp_ranking[j].algorithm # a

====
